---- MODULE Spec2Model ----
(***************************************************************************)
(* A model of the CellProfiler module IdentifyPrimAutomatic                *)
(* (pyCellProfiler/cellprofiler/modules/identifyprimautomatic.py).         *)
(*                                                                         *)
(* Intensities are the integers 0..MaxLevel, standing for the floats       *)
(* level/MaxLevel of the interval [0,1]; a threshold is on the same scale. *)
(* An image is a function from Pixels (row, column pairs, 0-based as in    *)
(* numpy) to Levels, a mask a function from Pixels to BOOLEAN.             *)
(***************************************************************************)
EXTENDS Integers, Sequences, FiniteSets, TLC

\* ---------------------------------------------------------------- bounds
\* the shape of the images: Rows x Cols pixels
Rows == 2
Cols == 2
MaxLevel == 1
\* threshold_correction_factor is the rational factor/FactorDen
FactorDen == 2
\* an input differs from a dark (level 0), fully masked-in image at no more
\* than this many pixels, or it is a uniform image
MaxMarked == 2
\* the image cycles of a pipeline run that processes several images
MaxCycles == 2
\* the object names the MeasureObjectIntensity module is given at most
MaxNames == 2

Pixels == (0 .. Rows - 1) \X (0 .. Cols - 1)
Levels == 0 .. MaxLevel
Images == [Pixels -> Levels]

\* The inputs of an image cycle, [image, mask]: every way of giving up to
\* MaxMarked pixels an intensity and a mask value of their own, and the
\* uniform images under the all-true and the all-false mask.
Marks == (Levels \X BOOLEAN) \ {<<0, TRUE>>}
Marked(S, f) ==
    [ image |-> [p \in Pixels |-> IF p \in S THEN f[p][1] ELSE 0],
      mask  |-> [p \in Pixels |-> IF p \in S THEN f[p][2] ELSE TRUE] ]
Inputs ==
       UNION { {Marked(S, f) : f \in [S -> Marks]} :
                   S \in {T \in SUBSET Pixels : Cardinality(T) <= MaxMarked} }
  \cup { [image |-> [p \in Pixels |-> v], mask |-> [p \in Pixels |-> b]] :
             v \in Levels, b \in BOOLEAN }

\* The inputs of a pipeline run of several cycles: the uniform images, and the
\* images with one bright, masked-in pixel.
CycleInputs ==
       { [image |-> [p \in Pixels |-> v], mask |-> [p \in Pixels |-> b]] :
             v \in Levels, b \in BOOLEAN }
  \cup { Marked({p}, p :> <<v, TRUE>>) : p \in Pixels, v \in 1 .. MaxLevel }

\* ------------------------------------------------------------- settings
TM_OTSU_GLOBAL == "Otsu Global"
TM_MOG_ADAPTIVE == "MoG Adaptive"
TM_ALL == "All"
TM_SET_INTERACTIVELY == "Set interactively"
TM_GLOBAL == "Global"
TM_ADAPTIVE == "Adaptive"
TM_PER_OBJECT == "PerObject"
UN_INTENSITY == "Intensity"
UN_NONE == "None"
WA_INTENSITY == "Intensity"
WA_NONE == "None"

\* The values the threshold_method Choice offers.
ThresholdMethods ==
    { TM_OTSU_GLOBAL, "Otsu Adaptive", "Otsu PerObject",
      "MoG Global", TM_MOG_ADAPTIVE, "MoG PerObject",
      "Background Global", "Background Adaptive", "Background PerObject",
      "RobustBackground Global", "RobustBackground Adaptive",
      "RobustBackground PerObject",
      "RidlerCalvard Global", "RidlerCalvard Adaptive", "RidlerCalvard PerObject",
      "Kapur Global", "Kapur Adaptive", "Kapur PerObject",
      TM_ALL, TM_SET_INTERACTIVELY }

\* IdentifyPrimAutomatic.__init__: the settings and their default values (a
\* Choice starts at the first value of its list).
DefaultSettings ==
    [ image_name |-> "OrigBlue",
      object_name |-> "Nuclei",
      size_range |-> <<10, 40>>,
      exclude_size |-> TRUE,
      merge_objects |-> FALSE,
      exclude_border_objects |-> TRUE,
      threshold_method |-> TM_OTSU_GLOBAL,
      threshold_correction_factor |-> FactorDen,
      threshold_range |-> <<0, MaxLevel>>,
      unclump_method |-> UN_INTENSITY,
      watershed_method |-> WA_INTENSITY ]

\* The settings a pipeline may load into the module: the defaults with one
\* setting changed (or both declumping methods).  Nothing in the module
\* validates a value that is set, so an inverted range and a method outside
\* the choice list are among them.
Configs ==
       {[DefaultSettings EXCEPT !.threshold_range = <<lo, hi>>] :
            lo \in Levels, hi \in Levels}
  \cup {[DefaultSettings EXCEPT !.threshold_correction_factor = f] :
            f \in {FactorDen - 1, FactorDen, FactorDen + 1}}
  \cup {[DefaultSettings EXCEPT !.size_range = r] :
            r \in {<<10, 40>>, <<40, 10>>, <<1, 2>>}}
  \cup {[DefaultSettings EXCEPT !.exclude_size = FALSE],
        [DefaultSettings EXCEPT !.merge_objects = TRUE],
        [DefaultSettings EXCEPT !.exclude_border_objects = FALSE]}
  \cup {[DefaultSettings EXCEPT !.unclump_method = u, !.watershed_method = w] :
            u \in {UN_INTENSITY, UN_NONE}, w \in {WA_INTENSITY, WA_NONE}}
  \cup {[DefaultSettings EXCEPT !.threshold_method = m] :
            m \in {TM_OTSU_GLOBAL, TM_MOG_ADAPTIVE, "Bogus"}}

\* ------------------------------------------------------------- helpers
RECURSIVE SumOver(_, _)
SumOver(f, S) ==
    IF S = {} THEN 0
    ELSE LET x == CHOOSE y \in S : TRUE IN f[x] + SumOver(f, S \ {x})

Min(S) == CHOOSE x \in S : \A y \in S : x <= y
Max(S) == CHOOSE x \in S : \A y \in S : y <= x

\* ---------------------------------------------------- cpmath.otsu.otsu
\* Between-class variance of the split {v < k} / {v >= k} of the data, as a
\* fraction <<numerator, denominator>>; 0 when one class is empty.
OtsuScore(data, k) ==
    LET c0 == {p \in Pixels : data[p] < k}
        c1 == {p \in Pixels : data[p] >= k}
        n0 == Cardinality(c0)
        n1 == Cardinality(c1)
        d  == SumOver(data, c1) * n0 - SumOver(data, c0) * n1
    IN  IF n0 = 0 \/ n1 = 0 THEN <<0, 1>> ELSE <<d * d, n0 * n1>>

FracLeq(a, b) == a[1] * b[2] <= b[1] * a[2]

\* The level that maximises the between-class variance (the lowest of them).
OtsuRaw(data) ==
    LET score == [k \in Levels |-> OtsuScore(data, k)]
    IN  Min({k \in Levels : \A j \in Levels : FracLeq(score[j], score[k])})

Clamp(v, lo, hi) == IF v < lo THEN lo ELSE IF v > hi THEN hi ELSE v

\* otsu(data, min_threshold, max_threshold) fails on an inverted range ...
OtsuRaises(lo, hi) == lo > hi
\* ... and otherwise returns the maximising threshold, clamped to the range.
otsu(data, lo, hi) == Clamp(OtsuRaw(data), lo, hi)

\* ------------------------------------------------- scipy.ndimage calls
Rank(p) == p[1] * Cols + p[2]

\* The structuring element scipy.ndimage uses when none is given:
\* generate_binary_structure(2, 1), the centre and its 4 edge neighbours.
DefaultStructure == {<<-1, 0>>, <<0, -1>>, <<0, 0>>, <<0, 1>>, <<1, 0>>}

Touches(p, q, structure) == <<q[1] - p[1], q[2] - p[2]>> \in structure

\* The pixels of fg joined to S by a path inside fg, steps taken in structure.
RECURSIVE Grow(_, _, _)
Grow(S, fg, structure) ==
    LET N == {q \in fg \ S : \E p \in S : Touches(p, q, structure)}
    IN  IF N = {} THEN S ELSE Grow(S \cup N, fg, structure)

Component(p, fg, structure) == Grow({p}, fg, structure)

\* label(input) with a structure: the features numbered 1..n in the order a
\* raster scan meets them.  Returns <<labeled array, number of features>>.
LabelWith(binary, structure) ==
    LET fg   == {p \in Pixels : binary[p]}
        rep  == [p \in fg |-> Min({Rank(q) : q \in Component(p, fg, structure)})]
        reps == {rep[p] : p \in fg}
    IN  << [p \in Pixels |->
              IF binary[p] THEN Cardinality({r \in reps : r <= rep[p]}) ELSE 0],
           Cardinality(reps) >>

\* Mutant of ndimage_label: each feature keeps the raster index (plus 1) of
\* its first pixel as its label, so the labels are not compacted.
ndimage_label_Uncompacted(binary) ==
    LET fg  == {p \in Pixels : binary[p]}
        rep == [p \in fg |-> Min({Rank(q) : q \in Component(p, fg, DefaultStructure)})]
    IN  << [p \in Pixels |-> IF binary[p] THEN rep[p] + 1 ELSE 0],
           Cardinality({rep[p] : p \in fg}) >>

\* Mutant of ndimage_label: every foreground pixel is a feature of its own.
ndimage_label_PerPixel(binary) == LabelWith(binary, {<<0, 0>>})

\* Mutant of ndimage_label: the last feature is lost (its pixels stay 0 and
\* it is not counted).
ndimage_label_DropLast(binary) ==
    LET lab == LabelWith(binary, DefaultStructure)
    IN  IF lab[2] = 0 THEN lab
        ELSE << [p \in Pixels |-> IF lab[1][p] = lab[2] THEN 0 ELSE lab[1][p]],
                lab[2] - 1 >>

\* scipy.ndimage.label(binary_image): no structure is passed.
ndimage_label(binary) == LabelWith(binary, DefaultStructure)

\* scipy.ndimage.binary_dilation(input): one iteration, default structure,
\* pixels outside the array count as false.
binary_dilation(input) ==
    [p \in Pixels |-> \E q \in Pixels : input[q] /\ Touches(q, p, DefaultStructure)]

\* Mutant of center_of_mass: the labels are not told apart, every entry is the
\* centre of all the labelled pixels.
center_of_mass_Unlabelled(input, labels, index) ==
    [i \in 1 .. Len(index) |->
        LET S == {p \in Pixels : labels[p] # 0}
        IN  << <<SumOver([p \in Pixels |-> input[p] * p[1]], S), SumOver(input, S)>>,
               <<SumOver([p \in Pixels |-> input[p] * p[2]], S), SumOver(input, S)>> >>]

\* scipy.ndimage.center_of_mass(input, labels, index): for each label of
\* index, in order, the tuple (centre along axis 0, centre along axis 1) of the
\* pixels that carry the label, weighted by input; each centre is the fraction
\* <<sum of weight * coordinate, sum of weight>>.
center_of_mass(input, labels, index) ==
    [i \in 1 .. Len(index) |->
        LET S == {p \in Pixels : labels[p] = index[i]}
        IN  << <<SumOver([p \in Pixels |-> input[p] * p[1]], S), SumOver(input, S)>>,
               <<SumOver([p \in Pixels |-> input[p] * p[2]], S), SumOver(input, S)>> >>]

\* range(a, b) as a sequence
Range(a, b) == [i \in 1 .. (IF b > a THEN b - a ELSE 0) |-> a + i - 1]

\* ----------------------------------------------------------------- state
VARIABLES
    settings,      \* the module's settings (IdentifyPrimAutomatic.__init__)
    image_set_list,\* the image sets of the pipeline run so far, one per cycle
    image_set,     \* image name -> [image, mask] of the current image cycle
    object_set,    \* object name -> [segmented] of the current image cycle
    measurements,  \* one row per image cycle of the run, each row a function
                   \* <<object name, feature>> -> values; the last is current
    locals,        \* run's local variables when it ended (<< >> before)
    moi,           \* the settings of the MeasureObjectIntensity module
    eoss,          \* the settings of the EnhanceOrSuppressSpeckles module
    pc             \* "idle", "ready" (cycle prepared), "done" or "error"

vars == <<settings, image_set_list, image_set, object_set, measurements, locals,
          moi, eoss, pc>>

Empty == << >>

\* MeasureObjectIntensity.create_settings
MeasureDefaultSettings ==
    [ image_name |-> "None",
      object_names |-> <<"None">>,
      object_name_remove_buttons |-> <<0>> ]

\* EnhanceOrSuppressSpeckles.create_settings
ENHANCE == "Enhance"
SUPPRESS == "Suppress"
SpeckleDefaultSettings ==
    [ image_name |-> "None",
      filtered_image_name |-> "FilteredBlue",
      method |-> ENHANCE,
      object_size |-> 10 ]

Init ==
    /\ settings = DefaultSettings
    /\ moi = MeasureDefaultSettings
    /\ eoss = SpeckleDefaultSettings
    /\ image_set_list = << >>
    /\ image_set = Empty
    /\ object_set = Empty
    /\ measurements = << >>
    /\ locals = Empty
    /\ pc = "idle"

\* measurements.add_measurement(object_name, feature_name, data): the value is
\* recorded in the row of the current image cycle.
add_measurement(m, object_name, feature_name, data) ==
    [m EXCEPT ![Len(m)] = (<<object_name, feature_name>> :> data) @@ @]

\* object_set.add_objects(objects, name)
add_objects(os, objects, name) == (name :> objects) @@ os

\* ---------------------------------------------- steps of run, line by line
\* Mutant of RunThreshold: the configured range is not passed on.
RunThreshold_DefaultRange(s, img) == otsu(img, 0, MaxLevel)

\* Mutant of RunThreshold: from the second cycle of a run on, the threshold is
\* computed from the image of the cycle before.
RunThreshold_PreviousCycle(s, img) ==
    LET n == Len(image_set_list)
    IN  otsu(IF n > 1 THEN image_set_list[n - 1][s.image_name].image ELSE img,
             s.threshold_range[1], s.threshold_range[2])

\* line 547: threshold = otsu(img, threshold_range.min, threshold_range.max)
RunThreshold(s, img) == otsu(img, s.threshold_range[1], s.threshold_range[2])

\* Mutants of BinaryImage: a strict comparison; the mask left out.
BinaryImage_Strict(img, threshold, mask) ==
    [p \in Pixels |-> img[p] > threshold /\ mask[p]]

BinaryImage_NoMask(img, threshold, mask) ==
    [p \in Pixels |-> img[p] >= threshold]

\* line 548: binary_image = logical_and(img >= threshold, mask)
BinaryImage(img, threshold, mask) ==
    [p \in Pixels |-> img[p] >= threshold /\ mask[p]]

\* Mutant of OutlineImage: the labelled pixels are not taken out again.
OutlineImage_Dilated(labeled_image) ==
    binary_dilation([p \in Pixels |-> labeled_image[p] # 0])

\* lines 550-552: the dilation of the labelled pixels, less those pixels
OutlineImage(labeled_image) ==
    LET outline_image == [p \in Pixels |-> labeled_image[p] # 0]
        temp == binary_dilation(outline_image)
    IN  [p \in Pixels |-> temp[p] /\ ~outline_image[p]]

\* Mutant of Centers: the index stops one label short, range(1, object_count).
Centers_OffByOne(labeled_image, object_count) ==
    center_of_mass([p \in Pixels |-> 1], labeled_image, Range(1, object_count))

\* line 563: center_of_mass(ones(shape), labeled_image, range(1, object_count+1))
Centers(labeled_image, object_count) ==
    center_of_mass([p \in Pixels |-> 1], labeled_image, Range(1, object_count + 1))

\* line 565: centers.reshape((object_count, 2)) raises unless the sizes agree
ReshapeRaises(centers, object_count) == Len(centers) # object_count

\* lines 566-567: columns 0 and 1 of centers
LocationCenterX(centers) == [i \in 1 .. Len(centers) |-> centers[i][1]]
LocationCenterY(centers) == [i \in 1 .. Len(centers) |-> centers[i][2]]

\* ----------------------------------------------------------------- actions
\* A pipeline is loaded: the settings take the values of c.
LoadSettings(c) ==
    /\ pc = "idle"
    /\ settings' = c
    /\ UNCHANGED <<eoss, image_set_list, image_set, object_set, measurements,
                   locals, moi, pc>>

\* The pipeline prepares the next image cycle: an image set holding the image
\* the module reads, added to the image sets of the run; the object set of the
\* cycle is empty, and the measurements get an empty row for the cycle.
NextImageSet(input) ==
    /\ pc = "idle"
    /\ image_set' = (settings.image_name :> input)
    /\ image_set_list' = Append(image_set_list, settings.image_name :> input)
    /\ measurements' = Append(measurements, Empty)
    /\ pc' = "ready"
    /\ UNCHANGED <<eoss, settings, object_set, locals, moi>>

\* The pipeline run ends with this image cycle, whether run returned or
\* raised: its image sets and its measurements are gone.
EndImageSet ==
    /\ pc \in {"done", "error"}
    /\ image_set_list' = << >>
    /\ image_set' = Empty
    /\ object_set' = Empty
    /\ measurements' = << >>
    /\ locals' = Empty
    /\ pc' = "idle"
    /\ UNCHANGED <<eoss, settings, moi>>

\* The pipeline run goes on to another image cycle after run returned: the
\* measurements and the image sets of the run stay.
NextCycle ==
    /\ pc = "done"
    /\ image_set' = Empty
    /\ object_set' = Empty
    /\ locals' = Empty
    /\ pc' = "idle"
    /\ UNCHANGED <<eoss, settings, image_set_list, measurements, moi>>

\* IdentifyPrimAutomatic.run(pipeline, image_set, object_set, measurements, frame)
\* for a grayscale (2-D) image, so that the conversion of lines 544-546 is
\* skipped.  (\E x \in {e} : ... names the value of e, evaluated once.)
Run ==
    /\ pc = "ready"
    /\ LET image == image_set[settings.image_name]
           img   == image.image
           mask  == image.mask
       IN  IF OtsuRaises(settings.threshold_range[1], settings.threshold_range[2])
           THEN /\ pc' = "error"
                /\ UNCHANGED <<object_set, measurements, locals>>
           ELSE \E threshold \in {RunThreshold(settings, img)} :
                \E binary_image \in {BinaryImage(img, threshold, mask)} :
                \E lab \in {ndimage_label(binary_image)} :
                \E centers \in {Centers(lab[1], lab[2])} :
                LET labeled_image == lab[1]
                    object_count  == lab[2]
                    outline_image == OutlineImage(labeled_image)
                    m1 == add_measurement(measurements, "Image",
                              "Count_" \o settings.object_name, <<object_count>>)
                    m2 == add_measurement(m1, "Image",
                              "Threshold_FinalThreshold_" \o settings.object_name,
                              <<threshold>>)
                    objects == [segmented |-> labeled_image]
                    m3 == add_measurement(m2, settings.object_name,
                              "Location_Center_X", LocationCenterX(centers))
                    m4 == add_measurement(m3, settings.object_name,
                              "Location_Center_Y", LocationCenterY(centers))
                IN  /\ object_set' = add_objects(object_set, objects,
                                                 settings.object_name)
                    /\ locals' = [ threshold |-> threshold,
                                   binary_image |-> binary_image,
                                   labeled_image |-> labeled_image,
                                   object_count |-> object_count,
                                   outline_image |-> outline_image ]
                    /\ IF ReshapeRaises(centers, object_count)
                       THEN measurements' = m2 /\ pc' = "error"
                       ELSE measurements' = m4 /\ pc' = "done"
    /\ UNCHANGED <<eoss, settings, image_set_list, image_set, moi>>

Next ==
    \/ pc = "idle" /\ \E c \in Configs : LoadSettings(c)
    \/ pc = "idle" /\ \E input \in Inputs : NextImageSet(input)
    \/ Run
    \/ EndImageSet

Spec == Init /\ [][Next]_vars

\* A pipeline run of up to MaxCycles image cycles under the default settings.
CyclesNext ==
    \/ /\ pc = "idle"
       /\ Len(measurements) < MaxCycles
       /\ \E input \in CycleInputs : NextImageSet(input)
    \/ Run
    \/ NextCycle

SpecCycles == Init /\ [][CyclesNext]_vars

\* ------------------------------------- IdentifyPrimAutomatic.threshold_modifier
\* A setting value is spelled as words and the separators between them; the
\* spelling of a value is the one whose concatenation is the value.
Words ==
    { "Otsu", "MoG", "Background", "RobustBackground", "RidlerCalvard", "Kapur",
      "Global", "Adaptive", "PerObject", "All", "Set", "interactively", "Bogus" }

RECURSIVE Join(_)
Join(w) == IF w = << >> THEN "" ELSE Head(w) \o Join(Tail(w))

Spelling(value) ==
    CHOOSE w \in {<<a>> : a \in Words} \cup {<<a, " ", b>> : a \in Words, b \in Words} :
        Join(w) = value

\* str.split(sep) of a spelled value: the pieces between the separators
RECURSIVE split(_, _)
split(w, sep) ==
    IF \A k \in 1 .. Len(w) : w[k] # sep THEN <<Join(w)>>
    ELSE LET k == Min({j \in 1 .. Len(w) : w[j] = sep})
         IN  <<Join(SubSeq(w, 1, k - 1))>> \o split(SubSeq(w, k + 1, Len(w)), sep)

\* get_threshold_modifier(), lines 645-653: parts[1] of the Python list is the
\* second piece; it raises IndexError where there is none.
get_threshold_modifier(s) ==
    LET parts == split(Spelling(s.threshold_method), " ")
    IN  IF Len(parts) < 2 THEN [raised |-> TRUE, result |-> "IndexError"]
        ELSE [raised |-> FALSE, result |-> parts[2]]

\* The user picks a value of the threshold_method choice list.
SelectThresholdMethod(m) ==
    /\ pc = "idle"
    /\ settings' = [settings EXCEPT !.threshold_method = m]
    /\ UNCHANGED <<eoss, image_set_list, image_set, object_set, measurements,
                   locals, moi, pc>>

\* The property threshold_modifier is read.
GetThresholdModifier ==
    /\ pc = "idle"
    /\ \E r \in {get_threshold_modifier(settings)} :
         /\ locals' = [call |-> "threshold_modifier", result |-> r.result]
         /\ pc' = IF r.raised THEN "raised" ELSE "returned"
    /\ UNCHANGED <<eoss, settings, image_set_list, image_set, object_set, measurements, moi>>

\* The caller has the result (or the exception) of a call on a module.
AfterCall ==
    /\ pc \in {"returned", "raised"}
    /\ locals' = Empty
    /\ pc' = "idle"
    /\ UNCHANGED <<eoss, settings, image_set_list, image_set, object_set, measurements, moi>>

ThresholdNext ==
    \/ pc = "idle" /\ \E c \in Configs : LoadSettings(c)
    \/ pc = "idle" /\ \E m \in ThresholdMethods : SelectThresholdMethod(m)
    \/ GetThresholdModifier
    \/ AfterCall

SpecThreshold == Init /\ [][ThresholdNext]_vars

\* ------------------------------------------- MeasureObjectIntensity.run
INTENSITY == "Intensity"
ALL_MEASUREMENTS ==
    << "IntegratedIntensity", "MeanIntensity", "StdIntensity", "MinIntensity",
       "MaxIntensity", "IntegratedIntensityEdge", "MeanIntensityEdge",
       "StdIntensityEdge", "MinIntensityEdge", "MaxIntensityEdge",
       "MassDisplacement", "LowerQuartileIntensity", "MedianIntensity",
       "UpperQuartileIntensity" >>

\* ------------------------------- MeasureObjectIntensity: the settings
\* cellprofiler.settings.DO_NOT_USE, and what module_class() returns for this
\* module; a pipeline saved by the Matlab program names the module by
\* module_name (line 107) instead.
DO_NOT_USE == "Do not use"
ModuleClass == "cellprofiler.modules.measureobjectintensity.MeasureObjectIntensity"
MatlabModuleName == "MeasureObjectIntensity"

\* del a[index] of a Python list: the position it deletes (1-based), or 0
\* where it raises IndexError.  A negative index counts from the end.
DelPosition(a, index) ==
    IF index >= 0 /\ index < Len(a) THEN index + 1
    ELSE IF index < 0 /\ index >= 0 - Len(a) THEN Len(a) + index + 1
    ELSE 0

DelAt(a, pos) == [j \in 1 .. Len(a) - 1 |-> IF j < pos THEN a[j] ELSE a[j + 1]]

\* Mutant of remove_cb: the object name goes, its button stays.
remove_cb_NameOnly(m, index) ==
    IF DelPosition(m.object_names, index) = 0
    THEN [m |-> m, raised |-> TRUE]
    ELSE [m |-> [m EXCEPT !.object_names = DelAt(@, DelPosition(@, index))],
          raised |-> FALSE]

\* remove_cb(index), lines 113-115: the module after the call and whether the
\* call raised.  The first del raises before anything is changed; were the
\* second to raise, the object name would be gone already.
remove_cb(m, index) ==
    IF DelPosition(m.object_names, index) = 0
    THEN [m |-> m, raised |-> TRUE]
    ELSE LET m1 == [m EXCEPT !.object_names = DelAt(@, DelPosition(@, index))]
         IN  IF DelPosition(m.object_name_remove_buttons, index) = 0
             THEN [m |-> m1, raised |-> TRUE]
             ELSE [m |-> [m1 EXCEPT !.object_name_remove_buttons =
                                       DelAt(@, DelPosition(@, index))],
                   raised |-> FALSE]

\* add_cb(), lines 117-120: a button is the index remove_cb is called with.
add_cb(m) ==
    LET nitems == Len(m.object_names)
    IN  [m EXCEPT !.object_names = Append(@, "None"),
                  !.object_name_remove_buttons = Append(@, nitems)]

\* visible_settings(), lines 122-128: zip stops at the shorter list.
visible_settings(m) ==
    LET n == Min({Len(m.object_names), Len(m.object_name_remove_buttons)})
    IN  <<m.image_name>>
        \o [j \in 1 .. 2 * n |->
               IF j % 2 = 1 THEN m.object_names[(j + 1) \div 2]
               ELSE <<"Remove", m.object_name_remove_buttons[j \div 2]>>]
        \o <<"Add">>

\* The values kept of an old pipeline, lines 145-149: setting_values[1:]
\* without those that are DO_NOT_USE.
\* Mutant of EraseDoNotUse: every value is kept.
EraseDoNotUse_Nothing(values) == values

RECURSIVE EraseDoNotUse(_)
EraseDoNotUse(values) ==
    IF values = << >> THEN << >>
    ELSE IF Head(values) # DO_NOT_USE
         THEN <<Head(values)>> \o EraseDoNotUse(Tail(values))
         ELSE EraseDoNotUse(Tail(values))

\* The loops of lines 152-155.
RECURSIVE RemoveWhileLonger(_, _)
RemoveWhileLonger(m, object_count) ==
    IF Len(m.object_names) > object_count
    THEN LET r == remove_cb(m, Len(m.object_names) - 1)
         IN  IF r.raised THEN r ELSE RemoveWhileLonger(r.m, object_count)
    ELSE [m |-> m, raised |-> FALSE]

RECURSIVE AddWhileShorter(_, _)
AddWhileShorter(m, object_count) ==
    IF Len(m.object_names) < object_count
    THEN AddWhileShorter(add_cb(m), object_count)
    ELSE m

\* CPModule.set_setting_values: the settings of settings() (lines 130-133, the
\* image name and then the object names) take the values in order.
CPModule_set_setting_values(m, setting_values) ==
    [m EXCEPT !.image_name = IF Len(setting_values) >= 1 THEN setting_values[1] ELSE @,
              !.object_names = [j \in 1 .. Len(@) |->
                                   IF j + 1 <= Len(setting_values)
                                   THEN setting_values[j + 1] ELSE @[j]]]

\* set_setting_values(setting_values, variable_revision_number, module_name),
\* lines 135-158: the module after the call and whether the call raised
\* (NotImplementedError for revision 1, IndexError for setting_values[0] of
\* an empty list and from remove_cb).
set_setting_values(m, setting_values, variable_revision_number, module_name) ==
    IF variable_revision_number = 1 THEN [m |-> m, raised |-> TRUE]
    ELSE IF module_name # ModuleClass /\ setting_values = << >>
    THEN [m |-> m, raised |-> TRUE]
    ELSE LET values == IF module_name # ModuleClass
                       THEN <<setting_values[1]>> \o EraseDoNotUse(Tail(setting_values))
                       ELSE setting_values
             object_count == Len(values) - 1
             r == RemoveWhileLonger(m, object_count)
         IN  IF r.raised THEN r
             ELSE [m |-> CPModule_set_setting_values(
                             AddWhileShorter(r.m, object_count), values),
                   raised |-> FALSE]

\* get_categories(pipeline, object_name), lines 160-170
get_categories(m, object_name) ==
    IF \E j \in 1 .. Len(m.object_names) : m.object_names[j] = object_name
    THEN <<INTENSITY>> ELSE << >>

\* get_measurements(pipeline, object_name, category), lines 172-178: a
\* function that ends without a return statement returns None.
get_measurements(m, object_name, category) ==
    IF category # INTENSITY THEN << >>
    ELSE IF \E j \in 1 .. Len(m.object_names) : m.object_names[j] = object_name
    THEN ALL_MEASUREMENTS
    ELSE "None"

\* The values a pipeline file holds for the settings of the module.
SettingValues == {"Nuclei", "Cells", DO_NOT_USE}

RECURSIVE SeqsUpTo(_, _)
SeqsUpTo(V, n) ==
    IF n = 0 THEN {<< >>}
    ELSE SeqsUpTo(V, n - 1)
         \cup {Append(w, v) : w \in {x \in SeqsUpTo(V, n - 1) : Len(x) = n - 1}, v \in V}

\* The user presses "Add another object".
AddCb ==
    /\ pc = "idle"
    /\ Len(moi.object_names) < MaxNames
    /\ moi' = add_cb(moi)
    /\ locals' = [call |-> "add_cb"]
    /\ pc' = "returned"
    /\ UNCHANGED <<eoss, settings, image_set_list, image_set, object_set, measurements>>

\* remove_cb is called with an index.
RemoveCb(index) ==
    /\ pc = "idle"
    /\ \E r \in {remove_cb(moi, index)} :
         /\ moi' = r.m
         /\ pc' = IF r.raised THEN "raised" ELSE "returned"
    /\ locals' = [call |-> "remove_cb", index |-> index]
    /\ UNCHANGED <<eoss, settings, image_set_list, image_set, object_set, measurements>>

\* The user presses the remove button shown at a position (0-based) of the
\* list of visible_settings: DoSomething calls remove_cb with the index the
\* button was made with (lines 110, 120).
PressRemoveButton(position) ==
    /\ pc = "idle"
    /\ position < Len(moi.object_name_remove_buttons)
    /\ \E r \in {remove_cb(moi, moi.object_name_remove_buttons[position + 1])} :
         /\ moi' = r.m
         /\ pc' = IF r.raised THEN "raised" ELSE "returned"
    /\ locals' = [call |-> "remove_button", position |-> position, before |-> moi]
    /\ UNCHANGED <<eoss, settings, image_set_list, image_set, object_set, measurements>>

\* A pipeline is loaded: set_setting_values is called with its values.
SetSettingValues(setting_values, variable_revision_number, module_name) ==
    /\ pc = "idle"
    /\ \E r \in {set_setting_values(moi, setting_values, variable_revision_number,
                                     module_name)} :
         /\ moi' = r.m
         /\ pc' = IF r.raised THEN "raised" ELSE "returned"
    /\ locals' = [call |-> "set_setting_values", setting_values |-> setting_values,
                  variable_revision_number |-> variable_revision_number,
                  module_name |-> module_name]
    /\ UNCHANGED <<eoss, settings, image_set_list, image_set, object_set, measurements>>

\* get_measurements is called for an object name and a category.
GetMeasurements(object_name, category) ==
    /\ pc = "idle"
    /\ locals' = [call |-> "get_measurements", object_name |-> object_name,
                  category |-> category,
                  result |-> get_measurements(moi, object_name, category)]
    /\ pc' = "returned"
    /\ UNCHANGED <<eoss, settings, image_set_list, image_set, object_set, measurements, moi>>

SettingsNext ==
    \/ AddCb
    \/ pc = "idle" /\ \E index \in (0 - MaxNames) .. MaxNames : RemoveCb(index)
    \/ pc = "idle" /\ \E position \in 0 .. MaxNames - 1 : PressRemoveButton(position)
    \/ /\ pc = "idle"
       /\ \E setting_values \in SeqsUpTo(SettingValues, MaxNames + 1) :
          \E variable_revision_number \in {1, 2} :
          \E module_name \in {ModuleClass, MatlabModuleName} :
              SetSettingValues(setting_values, variable_revision_number, module_name)
    \/ /\ pc = "idle"
       /\ \E object_name \in SettingValues \cup {"None"}, category \in {INTENSITY, "AreaShape"} :
              GetMeasurements(object_name, category)
    \/ AfterCall

SpecSettings == Init /\ [][SettingsNext]_vars

\* The compacted labellings of a set S of pixels: every pixel of S gets a
\* label of 1..n, every label of 1..n is used, and the objects are numbered in
\* the order a raster scan meets them.
Labellings(S) ==
    {g \in [S -> 1 .. Cardinality(S)] :
        \A p \in S : g[p] <= 1 + Max({0} \cup {g[q] : q \in {r \in S : Rank(r) < Rank(p)}})}

\* What the module is given in an image cycle, [image, labels]: the pixels of
\* S labelled by g with the intensities f, on a background of intensity b ...
LabelledInput(S, f, g, b) ==
    [ image  |-> [p \in Pixels |-> IF p \in S THEN f[p] ELSE b],
      labels |-> [p \in Pixels |-> IF p \in S THEN g[p] ELSE 0] ]

\* ... or a uniform image of intensity v that is one object as a whole.
WholeImageObject(v) ==
    [image |-> [p \in Pixels |-> v], labels |-> [p \in Pixels |-> 1]]

\* The object names a pipeline may configure: one name, or a second one whose
\* objects are the whole image as one object.
MeasureObjectNames == { <<"Nuclei">>, <<"Nuclei", "Cells">> }

\* cellprofiler.cpmath.outline.outline(labels): a labelled pixel keeps its
\* label where a neighbouring pixel has a different label or is background.
outline(labels) ==
    [p \in Pixels |->
        IF \E q \in Pixels : Touches(p, q, DefaultStructure) /\ labels[q] # labels[p]
        THEN labels[p] ELSE 0]

\* scipy.ndimage statistics of input over the pixels of each label of index.
Where(labels, k) == {p \in Pixels : labels[p] = k}

nd_sum(input, labels, index) ==
    [i \in 1 .. Len(index) |-> SumOver(input, Where(labels, index[i]))]

\* a mean is the fraction <<sum, number of pixels>>
nd_mean(input, labels, index) ==
    [i \in 1 .. Len(index) |->
        <<SumOver(input, Where(labels, index[i])), Cardinality(Where(labels, index[i]))>>]

\* a standard deviation is <<"sqrt", numerator, denominator>> of the variance
\* (n * sum of squares - square of the sum) / n^2
nd_standard_deviation(input, labels, index) ==
    [i \in 1 .. Len(index) |->
        LET S == Where(labels, index[i])
            n == Cardinality(S)
            s == SumOver(input, S)
        IN  <<"sqrt", n * SumOver([p \in Pixels |-> input[p] * input[p]], S) - s * s,
              n * n>>]

\* extrema; "none" stands for the value of a label without pixels
nd_minimum(input, labels, index) ==
    [i \in 1 .. Len(index) |->
        LET S == Where(labels, index[i])
        IN  IF S = {} THEN "none" ELSE Min({input[p] : p \in S})]

nd_maximum(input, labels, index) ==
    [i \in 1 .. Len(index) |->
        LET S == Where(labels, index[i])
        IN  IF S = {} THEN "none" ELSE Max({input[p] : p \in S})]

\* a[1:] of a numpy array
Slice1(a) == IF a = << >> THEN << >> ELSE Tail(a)

\* np.zeros((0,))
NoValues == << >>

\* Mutant of NObjects: one more than the code's count.
NObjects_OffByOne(labels) == Max({labels[p] : p \in Pixels}) + 2

\* line 198: nobjects = np.max(labels) + 1
NObjects(labels) == Max({labels[p] : p \in Pixels}) + 1

\* lines 224-225: np.meshgrid(range(image.shape[1]), range(image.shape[0])),
\* mesh_x holds the column index of each pixel and mesh_y its row index.
mesh_x == [p \in Pixels |-> p[2]]
mesh_y == [p \in Pixels |-> p[1]]

\* lines 224-235: the distance between the centre of an object and its
\* intensity-weighted centre, entry k+1 for label k, as <<"sqrt", numerator,
\* denominator>> of the squared distance; "nan" where the division by the
\* integrated intensity (or by the area) is 0/0.
MassDisplacement(image, labels, nobjects) ==
    [i \in 1 .. nobjects |->
        LET S   == Where(labels, i - 1)
            n   == Cardinality(S)
            t   == SumOver(image, S)
            sx  == SumOver(mesh_x, S)
            sy  == SumOver(mesh_y, S)
            i_x == SumOver([p \in Pixels |-> mesh_x[p] * image[p]], S)
            i_y == SumOver([p \in Pixels |-> mesh_y[p] * image[p]], S)
        IN  IF n = 0 \/ t = 0 THEN "nan"
            ELSE <<"sqrt", (sx * t - i_x * n) * (sx * t - i_x * n)
                             + (sy * t - i_y * n) * (sy * t - i_y * n),
                   n * t * n * t>>]

\* lines 251-253: image + labels, flattened and sorted.  With intensities in
\* units of 1/MaxLevel the sum is level + MaxLevel * label; entry t+1 of the
\* sequence is element t of the sorted array.
OrderedImage(image, labels) ==
    LET v == [p \in Pixels |-> image[p] + MaxLevel * labels[p]]
    IN  [t \in 1 .. Cardinality(Pixels) |->
            Min({x \in {v[p] : p \in Pixels} :
                    Cardinality({p \in Pixels : v[p] <= x}) >= t})]

\* lines 250, 254-256: (indices + num * areas[1:] / den + .5).astype(int), with
\* indices = cumsum(areas)[:-1]; areas holds floats, so that the division is
\* exact and the conversion takes the integer part.  Entry k is for label k.
QuantileIndices(areas, num, den) ==
    [k \in 1 .. Len(areas) - 1 |->
        SumOver(areas, 1 .. k) + (2 * num * areas[k + 1] + den) \div (2 * den)]

\* ordered_image[indices] raises IndexError for an index past the array
IndexRaises(indices) == \E k \in 1 .. Len(indices) : indices[k] >= Cardinality(Pixels)

\* lines 257-262: ordered_image[indices] - range(1, nobjects)
QuantileValues(ordered_image, indices) ==
    [k \in 1 .. Len(indices) |-> ordered_image[indices[k] + 1] - MaxLevel * k]

\* Lines 197-292 for one object name: the 14 sequences in the order of
\* ALL_MEASUREMENTS, or the IndexError of lines 257-262.
MeasureObjects(image, labels, nobjects) ==
    LET index    == Range(0, nobjects)
        outlines == outline(labels)
        areas    == nd_sum([p \in Pixels |-> 1], labels, index)
        i25      == QuantileIndices(areas, 1, 4)
        i50      == QuantileIndices(areas, 1, 2)
        i75      == QuantileIndices(areas, 3, 4)
        ordered  == OrderedImage(image, labels)
    IN  IF nobjects > 1
        THEN [ raised |-> IndexRaises(i25) \/ IndexRaises(i50) \/ IndexRaises(i75),
               nobjects |-> nobjects,
               integrated_intensity |-> nd_sum(image, labels, index),
               indices |-> <<i25, i50, i75>>,
               values |->
                 IF IndexRaises(i25) \/ IndexRaises(i50) \/ IndexRaises(i75)
                 THEN << >>
                 ELSE << Slice1(nd_sum(image, labels, index)),
                         Slice1(nd_mean(image, labels, index)),
                         Slice1(nd_standard_deviation(image, labels, index)),
                         Slice1(nd_minimum(image, labels, index)),
                         Slice1(nd_maximum(image, labels, index)),
                         Slice1(nd_sum(image, outlines, index)),
                         Slice1(nd_mean(image, outlines, index)),
                         Slice1(nd_standard_deviation(image, outlines, index)),
                         Slice1(nd_minimum(image, outlines, index)),
                         Slice1(nd_maximum(image, outlines, index)),
                         Slice1(MassDisplacement(image, labels, nobjects)),
                         QuantileValues(ordered, i25),
                         QuantileValues(ordered, i50),
                         QuantileValues(ordered, i75) >> ]
        ELSE [ raised |-> FALSE,
               nobjects |-> nobjects,
               integrated_intensity |-> nd_sum(image, labels, index),
               indices |-> <<NoValues, NoValues, NoValues>>,
               values |-> [f \in 1 .. Len(ALL_MEASUREMENTS) |-> NoValues] ]

\* lines 294-313: the 14 add_measurement calls for one object name
RecordIntensity(m, object_name, image_name, values) ==
    LET row == [k \in {<<object_name, INTENSITY \o "_" \o ALL_MEASUREMENTS[f]
                                        \o "_" \o image_name>> :
                          f \in 1 .. Len(ALL_MEASUREMENTS)} |->
                   values[CHOOSE f \in 1 .. Len(ALL_MEASUREMENTS) :
                            k[2] = INTENSITY \o "_" \o ALL_MEASUREMENTS[f]
                                       \o "_" \o image_name]]
    IN  [m EXCEPT ![Len(m)] = row @@ @]

\* The loop of lines 195-313 over object names i, i+1, ...: the measurements
\* after it and whether it raised, <<measurements, raised, results so far>>.
RECURSIVE MeasureLoop(_, _, _)
MeasureLoop(m, i, done) ==
    IF i > Len(moi.object_names) THEN <<m, FALSE, done>>
    ELSE LET name   == moi.object_names[i]
             image  == image_set[moi.image_name].image
             labels == object_set[name].segmented
             r      == MeasureObjects(image, labels, NObjects(labels))
         IN  IF r.raised THEN <<m, TRUE, Append(done, r)>>
             ELSE MeasureLoop(RecordIntensity(m, name, moi.image_name, r.values),
                              i + 1, Append(done, r))

\* Earlier modules of the pipeline have provided the image and the objects of
\* an image cycle, and the module is configured to measure them.
ProvideObjects(in, names) ==
    /\ pc = "idle"
    /\ moi' = set_setting_values(MeasureDefaultSettings, <<"OrigBlue">> \o names,
                                  2, ModuleClass).m
    /\ image_set' = ("OrigBlue" :> [image |-> in.image, mask |-> [p \in Pixels |-> TRUE]])
    /\ image_set_list' = <<image_set'>>
    /\ object_set' = [n \in {names[i] : i \in 1 .. Len(names)} |->
                        [segmented |-> IF n = names[1] THEN in.labels
                                       ELSE [p \in Pixels |-> 1]]]
    /\ measurements' = <<Empty>>
    /\ pc' = "ready"
    /\ UNCHANGED <<eoss, settings, locals>>

\* MeasureObjectIntensity.run(workspace)
MeasureRun ==
    /\ pc = "ready"
    /\ \E r \in {MeasureLoop(measurements, 1, << >>)} :
         /\ measurements' = r[1]
         /\ pc' = IF r[2] THEN "error" ELSE "done"
         /\ locals' = r[3]
    /\ UNCHANGED <<eoss, settings, image_set_list, image_set, object_set, moi>>

\* The pipeline run ends.
EndMeasure ==
    /\ pc \in {"done", "error"}
    /\ moi' = MeasureDefaultSettings
    /\ image_set_list' = << >>
    /\ image_set' = Empty
    /\ object_set' = Empty
    /\ measurements' = << >>
    /\ locals' = Empty
    /\ pc' = "idle"
    /\ UNCHANGED <<eoss, settings>>

\* Up to MaxMarked pixels are labelled.
MeasureNext ==
    \/ /\ pc = "idle"
       /\ \E S \in {T \in SUBSET Pixels : Cardinality(T) <= MaxMarked} :
          \E f \in [S -> Levels], g \in Labellings(S), b \in Levels :
          \E names \in MeasureObjectNames :
              ProvideObjects(LabelledInput(S, f, g, b), names)
    \/ /\ pc = "idle"
       /\ \E v \in Levels, names \in MeasureObjectNames :
              ProvideObjects(WholeImageObject(v), names)
    \/ MeasureRun
    \/ EndMeasure

SpecMeasure == Init /\ [][MeasureNext]_vars


\* -------------------------------------------- EnhanceOrSuppressSpeckles.run
\* The settings a pipeline may load into the module: the image of the cycle,
\* a method of the choice list or another value, a speckle size.
SpeckleConfigs ==
    { [SpeckleDefaultSettings EXCEPT !.image_name = "OrigBlue", !.method = m,
                                     !.object_size = n] :
          m \in {ENHANCE, SUPPRESS, "Bogus"}, n \in {1, 3, 10} }

\* cellprofiler.cpmath.cpmorphology: the pixels within radius of p that
\* count, the grayscale erosion (lowest value within the radius) and dilation
\* (highest value within the radius); a pixel outside the mask keeps its
\* value and is not looked at.
WithinRadius(p, radius, mask) ==
    {q \in Pixels : /\ mask[q]
                    /\ (q[1] - p[1]) * (q[1] - p[1]) + (q[2] - p[2]) * (q[2] - p[2])
                         <= radius * radius}

grey_erosion(image, radius, mask) ==
    [p \in Pixels |->
        IF mask[p] THEN Min({image[q] : q \in WithinRadius(p, radius, mask)})
        ELSE image[p]]

grey_dilation(image, radius, mask) ==
    [p \in Pixels |->
        IF mask[p] THEN Max({image[q] : q \in WithinRadius(p, radius, mask)})
        ELSE image[p]]

opening(image, radius, mask) ==
    grey_dilation(grey_erosion(image, radius, mask), radius, mask)

white_tophat(image, radius, mask) ==
    [p \in Pixels |->
        IF mask[p] THEN image[p] - opening(image, radius, mask)[p] ELSE image[p]]

\* The filters called without a mask look at every pixel.
NoMask == [p \in Pixels |-> TRUE]

\* Mutant of SpeckleFilter: the mask of the image is never passed on.
SpeckleFilter_NoMask(s, image) ==
    LET radius == (s.object_size + 1) \div 2
    IN  IF s.method = ENHANCE
        THEN [ raised |-> FALSE, filter |-> "white_tophat", mask_passed |-> FALSE,
               result |-> white_tophat(image.image, radius, NoMask) ]
        ELSE IF s.method = SUPPRESS
        THEN [ raised |-> FALSE, filter |-> "opening", mask_passed |-> FALSE,
               result |-> opening(image.image, radius, NoMask) ]
        ELSE [ raised |-> TRUE, filter |-> "none", mask_passed |-> FALSE,
               result |-> "ValueError" ]

\* Lines 77-89: the radius, the filter the method selects and whether it is
\* given the mask, or the ValueError for a method that is neither.
SpeckleFilter(s, image) ==
    LET radius == (s.object_size + 1) \div 2
    IN  IF s.method = ENHANCE
        THEN [ raised |-> FALSE, filter |-> "white_tophat",
               mask_passed |-> image.has_mask,
               result |-> IF image.has_mask
                          THEN white_tophat(image.image, radius, image.mask)
                          ELSE white_tophat(image.image, radius, NoMask) ]
        ELSE IF s.method = SUPPRESS
        THEN [ raised |-> FALSE, filter |-> "opening",
               mask_passed |-> image.has_mask,
               result |-> IF image.has_mask
                          THEN opening(image.image, radius, image.mask)
                          ELSE opening(image.image, radius, NoMask) ]
        ELSE [ raised |-> TRUE, filter |-> "none", mask_passed |-> FALSE,
               result |-> "ValueError" ]

\* cpi.Image(result, parent_image=image): the image has no mask of its own
\* and names its parent.
Image(result, parent_image) ==
    [image |-> result, mask |-> NoMask, has_mask |-> FALSE, parent_image |-> parent_image]

\* A pipeline is loaded: the settings take the values of c.
LoadSpeckleSettings(c) ==
    /\ pc = "idle"
    /\ eoss' = c
    /\ UNCHANGED <<settings, image_set_list, image_set, object_set, measurements,
                   locals, moi, pc>>

\* An earlier module has provided the image of the cycle, with the mask of
\* input or, where that mask is all true, also without a mask.
ProvideImage(input, has_mask) ==
    /\ pc = "idle"
    /\ eoss.image_name # "None"
    /\ has_mask \/ input.mask = NoMask
    /\ image_set' = (eoss.image_name :>
                        [image |-> input.image, mask |-> input.mask,
                         has_mask |-> has_mask, parent_image |-> "None"])
    /\ image_set_list' = <<image_set'>>
    /\ pc' = "ready"
    /\ UNCHANGED <<settings, object_set, measurements, locals, moi, eoss>>

\* EnhanceOrSuppressSpeckles.run(workspace), without a frame to display in
SpeckleRun ==
    /\ pc = "ready"
    /\ \E r \in {SpeckleFilter(eoss, image_set[eoss.image_name])} :
         /\ locals' = [filter |-> r.filter, mask_passed |-> r.mask_passed]
         /\ IF r.raised
            THEN /\ pc' = "error"
                 /\ UNCHANGED image_set
            ELSE /\ pc' = "done"
                 /\ image_set' = (eoss.filtered_image_name :>
                                     Image(r.result, eoss.image_name)) @@ image_set
    /\ UNCHANGED <<settings, image_set_list, object_set, measurements, moi, eoss>>

\* The image cycle ends.
EndSpeckles ==
    /\ pc \in {"done", "error"}
    /\ image_set_list' = << >>
    /\ image_set' = Empty
    /\ locals' = Empty
    /\ pc' = "idle"
    /\ UNCHANGED <<settings, object_set, measurements, moi, eoss>>

SpecklesNext ==
    \/ pc = "idle" /\ \E c \in SpeckleConfigs : LoadSpeckleSettings(c)
    \/ pc = "idle" /\ \E input \in Inputs, has_mask \in BOOLEAN : ProvideImage(input, has_mask)
    \/ SpeckleRun
    \/ EndSpeckles

SpecSpeckles == Init /\ [][SpecklesNext]_vars

\* ------------------------------------------------- what the claims read
\* The image and the mask of the current cycle (defined once it is prepared).
Img == image_set[settings.image_name].image
Mask == image_set[settings.image_name].mask
\* The measurements recorded in the current cycle.
Recorded == measurements[Len(measurements)]
\* The label image stored in the object set under object_name.
Segmented == object_set[settings.object_name].segmented
CountKey == <<"Image", "Count_" \o settings.object_name>>
ThresholdKey == <<"Image", "Threshold_FinalThreshold_" \o settings.object_name>>
CenterXKey == <<settings.object_name, "Location_Center_X">>
CenterYKey == <<settings.object_name, "Location_Center_Y">>
\* run got past the threshold computation (it returned, or raised later)
Thresholded == pc \in {"done", "error"} /\ locals # Empty
Foreground == {p \in Pixels : Segmented[p] # 0}

FullStructure == {<<dr, dc>> : dr \in {-1, 0, 1}, dc \in {-1, 0, 1}}

\* C2 (as claimed): two foreground pixels carry the same label if and only if
\* a path of foreground pixels joins them under 8-connectivity.
C2_EightConnected ==
    pc = "done" =>
        \A p \in Foreground, q \in Foreground :
            (Segmented[p] = Segmented[q]) <=> q \in Component(p, Foreground, FullStructure)

C4_CountConsistent ==
    Thresholded =>
        /\ {CountKey, CenterXKey, CenterYKey} \subseteq DOMAIN Recorded
        /\ Recorded[CountKey] = <<Max({Segmented[p] : p \in Pixels})>>
        /\ Len(Recorded[CenterXKey]) = Recorded[CountKey][1]
        /\ Len(Recorded[CenterYKey]) = Recorded[CountKey][1]

\* C4 witness: a run that recorded a count of 2 and two centres.
C4_Witness ==
    /\ pc = "done"
    /\ Recorded[CountKey] = <<2>>
    /\ Len(Recorded[CenterXKey]) = 2
    /\ Len(Recorded[CenterYKey]) = 2

\* C5: with threshold_range.min <= threshold_range.max, the threshold applied
\* and recorded as Threshold_FinalThreshold_<objects> lies within the range.
C5_ThresholdWithinRange ==
    (Thresholded /\ settings.threshold_range[1] <= settings.threshold_range[2]) =>
        /\ Recorded[ThresholdKey] = <<locals.threshold>>
        /\ settings.threshold_range[1] <= locals.threshold
        /\ locals.threshold <= settings.threshold_range[2]

\* C5 witness: a run on an image whose variance-maximising level lies above a
\* valid range, so that the upper bound decides the threshold.
C5_Witness ==
    /\ pc = "done"
    /\ settings.threshold_range[1] <= settings.threshold_range[2]
    /\ OtsuRaw(Img) > settings.threshold_range[2]
    /\ Recorded[ThresholdKey] = <<settings.threshold_range[2]>>

\* C6 (as claimed): the applied threshold is the computed threshold times
\* threshold_correction_factor, clamped to the range (both sides times FactorDen).
C6_FactorApplied ==
    pc = "done" =>
        locals.threshold * FactorDen =
            Clamp(OtsuRaw(Img) * settings.threshold_correction_factor,
                  settings.threshold_range[1] * FactorDen,
                  settings.threshold_range[2] * FactorDen)

\* C7 (as claimed): any image with the same mask that agrees with the one
\* processed on every masked-in pixel gets the same threshold.
C7_ThresholdIgnoresMaskedOut ==
    pc = "done" =>
        \A other \in Images :
            (\A p \in Pixels : Mask[p] => other[p] = Img[p]) =>
                RunThreshold(settings, other) = locals.threshold

\* The configurations the claim calls invalid.
InvalidConfiguration(s) ==
    \/ s.threshold_method \notin ThresholdMethods
    \/ s.size_range[1] > s.size_range[2]
    \/ s.threshold_range[1] > s.threshold_range[2]

\* C8 (as claimed): under an invalid configuration run never returns normally,
\* computes no threshold, adds no objects and records no measurement.
C8_InvalidConfigurationAborts ==
    InvalidConfiguration(settings) =>
        /\ pc # "done"
        /\ locals = Empty
        /\ object_set = Empty
        /\ \A i \in 1 .. Len(measurements) : measurements[i] = Empty

\* An empty mask, or an image of one intensity.
Degenerate ==
    \/ \A p \in Pixels : ~Mask[p]
    \/ \A p \in Pixels, q \in Pixels : Img[p] = Img[q]

\* C9 (as claimed): on a degenerate image (the range being valid) run returns
\* with a count of 0, an all-zero label image and a recorded threshold.
C9_DegenerateGivesNoObjects ==
    ( /\ pc \in {"done", "error"}
      /\ settings.threshold_range[1] <= settings.threshold_range[2]
      /\ Degenerate ) =>
        /\ pc = "done"
        /\ Recorded[CountKey] = <<0>>
        /\ \A p \in Pixels : Segmented[p] = 0
        /\ ThresholdKey \in DOMAIN Recorded

\* C10: whenever no pixel satisfies (image >= threshold and mask), run returns
\* without error, the label image is all zero, object_count and Count_<objects>
\* are 0 and both Location_Center sequences are empty.
C10_NoForegroundGivesNoObjects ==
    (Thresholded /\ \A p \in Pixels : ~(Img[p] >= locals.threshold /\ Mask[p])) =>
        /\ pc = "done"
        /\ \A p \in Pixels : Segmented[p] = 0
        /\ locals.object_count = 0
        /\ Recorded[CountKey] = <<0>>
        /\ Recorded[CenterXKey] = << >>
        /\ Recorded[CenterYKey] = << >>

\* C10 witness: a run in which no pixel is both at or above the threshold and
\* masked in, although a masked-out pixel reaches the threshold and masked-in
\* pixels lie below it.
C10_Witness ==
    /\ pc = "done"
    /\ \A p \in Pixels : ~(Img[p] >= locals.threshold /\ Mask[p])
    /\ \E p \in Pixels : Img[p] >= locals.threshold /\ ~Mask[p]
    /\ \E p \in Pixels : Img[p] < locals.threshold /\ Mask[p]
    /\ Recorded[CountKey] = <<0>>
    /\ Recorded[CenterXKey] = << >>

\* The pixels of the first or last row or column.
OnBorder(p) == p[1] \in {0, Rows - 1} \/ p[2] \in {0, Cols - 1}

\* C11 (as claimed): when exclude_border_objects is true, no region of the
\* label image that run emits has a pixel in the first or last row or column.
C11_NoBorderObjects ==
    (pc = "done" /\ settings.exclude_border_objects) =>
        \A p \in Foreground : ~OnBorder(p)

\* The equivalent diameter 2 * sqrt(area / pi) lies in [range[1], range[2]]:
\* range[1]^2 * pi <= 4 * area <= range[2]^2 * pi, with pi taken as 355/113.
EquivalentDiameterWithin(area, range) ==
    /\ 355 * range[1] * range[1] <= 4 * 113 * area
    /\ 4 * 113 * area <= 355 * range[2] * range[2]

\* C12 (as claimed): when exclude_size is true and merge_objects is false,
\* every region of the emitted label image has an equivalent diameter within
\* size_range.
C12_RegionsWithinSizeRange ==
    (pc = "done" /\ settings.exclude_size /\ ~settings.merge_objects) =>
        \A i \in 1 .. locals.object_count :
            EquivalentDiameterWithin(Cardinality({p \in Pixels : Segmented[p] = i}),
                                     settings.size_range)

\* p and r are two intensity maxima of one connected foreground component that
\* only dimmer pixels join: both have the highest intensity of the component,
\* and no path through pixels of that intensity leads from one to the other.
TwoMaxima(p, r) ==
    LET comp == Component(p, {q \in Pixels : locals.binary_image[q]}, DefaultStructure)
    IN  /\ r \in comp
        /\ Img[p] = Img[r]
        /\ \A q \in comp : Img[q] <= Img[p]
        /\ r \notin Component(p, {q \in comp : Img[q] = Img[p]}, DefaultStructure)

\* C13 (as claimed): with unclump method Intensity and watershed method
\* Intensity, two intensity maxima of one connected foreground component that a
\* dimmer pixel separates end up under two different labels.
C13_ClumpIsSplit ==
    ( /\ pc = "done"
      /\ settings.unclump_method = UN_INTENSITY
      /\ settings.watershed_method = WA_INTENSITY ) =>
        \A p \in Pixels, r \in Pixels :
            (locals.binary_image[p] /\ TwoMaxima(p, r)) => Segmented[p] # Segmented[r]

MeanCoordinate(i, axis) ==
    LET S == {p \in Pixels : Segmented[p] = i}
    IN  <<SumOver([p \in Pixels |-> p[axis]], S), Cardinality(S)>>

\* C15: for every label i of 1..N, entry i of Location_Center_X and entry i of
\* Location_Center_Y (1-based here) are the unweighted means of the two
\* coordinates over exactly the pixels labelled i, in increasing label order.
\* Which axis is called X is not part of this claim.
C15_CentersAreMeanCoordinates ==
    pc = "done" =>
        LET X == Recorded[CenterXKey]
            Y == Recorded[CenterYKey]
            N == locals.object_count
        IN  /\ Len(X) = N /\ Len(Y) = N
            /\ \/ \A i \in 1 .. N : X[i] = MeanCoordinate(i, 1) /\ Y[i] = MeanCoordinate(i, 2)
               \/ \A i \in 1 .. N : X[i] = MeanCoordinate(i, 2) /\ Y[i] = MeanCoordinate(i, 1)

\* C15 witness: a run that recorded the centre of an object of several pixels,
\* a centre that lies between two pixels.
C15_Witness ==
    /\ pc = "done"
    /\ locals.object_count >= 1
    /\ \E i \in 1 .. locals.object_count :
         LET c == Recorded[CenterXKey][i] \o Recorded[CenterYKey][i]
         IN  (c[2] > 1 /\ c[1] % c[2] # 0) \/ (c[4] > 1 /\ c[3] % c[4] # 0)

\* p has a neighbour (along a row or a column) for which P holds.
HasNeighbour(p, P(_)) ==
    \E q \in Pixels : q # p /\ Touches(p, q, DefaultStructure) /\ P(q)

\* C16 (as claimed): the outline image is true exactly at the pixels of a
\* labelled region that have a neighbour that is background or carries a
\* different label.
C16_OutlineIsRegionBorder ==
    pc = "done" =>
        \A p \in Pixels :
            locals.outline_image[p] <=>
                /\ Segmented[p] # 0
                /\ LET Other(q) == Segmented[q] # Segmented[p] IN HasNeighbour(p, Other)

\* C16 (amended): the outline image has the shape of the input and is true
\* exactly at the background pixels that have a neighbour (along a row or a
\* column) in a labelled region.
C16_OutlineIsOuterBorder ==
    Thresholded =>
        /\ DOMAIN locals.outline_image = DOMAIN Img
        /\ \A p \in Pixels :
             locals.outline_image[p] <=>
                /\ Segmented[p] = 0
                /\ LET Labelled(q) == Segmented[q] # 0 IN HasNeighbour(p, Labelled)

\* C16 witness: a run whose outline image is true at a background pixel next
\* to an object and false at a background pixel away from every object.
C16_Witness ==
    /\ pc = "done"
    /\ \E p \in Pixels : Segmented[p] # 0
    /\ \E p \in Pixels : Segmented[p] = 0 /\ locals.outline_image[p]
    /\ \E p \in Pixels : Segmented[p] = 0 /\ ~locals.outline_image[p]

CompletedCycles ==
    {i \in 1 .. Len(measurements) : i < Len(measurements) \/ pc \in {"idle", "done"}}

\* The row of cycle i holds the four measurements of run, and its threshold
\* and count are those of the image of cycle i alone.
ResultOfOwnImage(i) ==
    \E row \in {measurements[i]} :
    \E in \in {image_set_list[i][settings.image_name]} :
    \E threshold \in {otsu(in.image, settings.threshold_range[1],
                           settings.threshold_range[2])} :
    \E binary \in {BinaryImage(in.image, threshold, in.mask)} :
    \E count \in {LabelWith(binary, DefaultStructure)[2]} :
        /\ DOMAIN row = {CountKey, ThresholdKey, CenterXKey, CenterYKey}
        /\ row[ThresholdKey] = <<threshold>>
        /\ row[CountKey] = <<count>>
        /\ Len(row[CenterXKey]) = count
        /\ Len(row[CenterYKey]) = count

\* C18: over the image cycles of a run, every step only adds to the
\* measurement table: no row goes away, every value that was recorded is still
\* there and unchanged; a completed row holds the Count, Threshold_FinalThreshold,
\* Location_Center_X and Location_Center_Y of its own image, whatever images
\* were processed before it, and two cycles on the same image have equal rows.
C18_MeasurementsAppendOnly ==
    /\ [][ /\ Len(measurements') >= Len(measurements)
           /\ \A i \in 1 .. Len(measurements) : \A k \in DOMAIN measurements[i] :
                /\ k \in DOMAIN measurements'[i]
                /\ measurements'[i][k] = measurements[i][k]
         ]_vars
    /\ [](\A i \in CompletedCycles :
            /\ ResultOfOwnImage(i)
            /\ \A j \in CompletedCycles :
                 image_set_list[i] = image_set_list[j] => measurements[i] = measurements[j])

\* C18 witness: the second cycle of a run has been run on another image than
\* the first, and the rows of the two cycles differ.
C18_Witness ==
    /\ pc = "done"
    /\ Len(measurements) = 2
    /\ image_set_list[1] # image_set_list[2]
    /\ measurements[1] # measurements[2]
    /\ ThresholdKey \in DOMAIN measurements[1]
    /\ measurements[1][ThresholdKey] # measurements[2][ThresholdKey]

\* What the claims about MeasureObjectIntensity read: the label image of the
\* i-th configured object name, its number of objects, the key of a feature.
MeasuredLabels(i) == object_set[moi.object_names[i]].segmented
MeasuredCount(i) == Max({MeasuredLabels(i)[p] : p \in Pixels})
IntensityKey(i, feature) ==
    <<moi.object_names[i], INTENSITY \o "_" \o feature \o "_" \o moi.image_name>>
QuantileFeatures == {"LowerQuartileIntensity", "MedianIntensity", "UpperQuartileIntensity"}
\* MeasureObjectIntensity.run has ended, by returning or by raising
Measured == pc \in {"done", "error"} /\ moi # MeasureDefaultSettings

\* C19 (as claimed): for a label image with at most one object, run does not
\* raise while it measures these objects and records empty sequences for the
\* three quantile features.
C19_QuantilesSkippedUpToOneObject ==
    Measured =>
        \A i \in 1 .. Len(locals) :
            MeasuredCount(i) <= 1 =>
                /\ ~locals[i].raised
                /\ \A f \in QuantileFeatures :
                     /\ IntensityKey(i, f) \in DOMAIN Recorded
                     /\ Recorded[IntensityKey(i, f)] = << >>

\* C19 (amended): for a label image with zero objects, run does not raise
\* while it measures these objects and records empty sequences for the three
\* quantile features.
C19_QuantilesSkippedForNoObjects ==
    Measured =>
        \A i \in 1 .. Len(locals) :
            MeasuredCount(i) = 0 =>
                /\ ~locals[i].raised
                /\ \A f \in QuantileFeatures :
                     /\ IntensityKey(i, f) \in DOMAIN Recorded
                     /\ Recorded[IntensityKey(i, f)] = << >>

\* C19 witness: run returned after it measured a label image without objects,
\* and then the objects of a second name.
C19_Witness ==
    /\ Measured
    /\ pc = "done"
    /\ Len(locals) = 2
    /\ MeasuredCount(1) = 0
    /\ Recorded[IntensityKey(1, "MedianIntensity")] = << >>
    /\ Recorded[IntensityKey(2, "MedianIntensity")] # << >>

\* C20 (as claimed): once run has ended, for every configured object name each
\* of the 14 Intensity_<feature>_<image> sequences is recorded and has length
\* max(labels), and entry k of IntegratedIntensity (1-based) is the sum of the
\* intensities over the pixels of label k.
C20_SequenceLengthIsObjectCount ==
    Measured =>
        \A i \in 1 .. Len(moi.object_names) :
            /\ \A f \in 1 .. Len(ALL_MEASUREMENTS) :
                 /\ IntensityKey(i, ALL_MEASUREMENTS[f]) \in DOMAIN Recorded
                 /\ Len(Recorded[IntensityKey(i, ALL_MEASUREMENTS[f])]) = MeasuredCount(i)
            /\ \A k \in 1 .. MeasuredCount(i) :
                 Recorded[IntensityKey(i, "IntegratedIntensity")][k]
                     = SumOver(Img, {p \in Pixels : MeasuredLabels(i)[p] = k})

\* The image MeasureObjectIntensity measures, and the block of label k in the
\* sorted array of lines 251-253: the 0-based positions that hold the pixels
\* of label k of the i-th object name.
MeasuredImage == image_set[moi.image_name].image
BlockOf(i, k) ==
    LET before == Cardinality({p \in Pixels : MeasuredLabels(i)[p] < k})
    IN  before .. before + Cardinality(Where(MeasuredLabels(i), k)) - 1

\* C21 (as claimed): once run has ended, for every measured object name with
\* at least one object run did not raise, every quantile index it used lies
\* in the block of its object, every reported quartile and median is the
\* intensity of a pixel of that object, and lower quartile <= median <= upper
\* quartile.
C21_QuantilesWithinObject ==
    Measured =>
        \A i \in 1 .. Len(locals) :
            MeasuredCount(i) >= 1 =>
                /\ ~locals[i].raised
                /\ \A k \in 1 .. MeasuredCount(i) :
                     /\ \A q \in 1 .. 3 :
                          /\ locals[i].indices[q][k] \in BlockOf(i, k)
                          /\ locals[i].values[11 + q][k]
                                \in {MeasuredImage[p] : p \in Where(MeasuredLabels(i), k)}
                     /\ locals[i].values[12][k] <= locals[i].values[13][k]
                     /\ locals[i].values[13][k] <= locals[i].values[14][k]

\* C22 (as claimed): whenever threshold_modifier has been read with a value of
\* the choice list selected, the read did not raise and gave "Global",
\* "Adaptive" or "PerObject".
C22_ThresholdModifierIsAModifier ==
    (pc \in {"returned", "raised"} /\ locals.call = "threshold_modifier"
         /\ settings.threshold_method \in ThresholdMethods) =>
        /\ pc = "returned"
        /\ locals.result \in {TM_GLOBAL, TM_ADAPTIVE, TM_PER_OBJECT}

\* A call on the MeasureObjectIntensity module has ended
Called(name) == pc \in {"returned", "raised"} /\ locals.call = name

\* What set_setting_values is to keep of its values: all of them, or for a
\* pipeline of the Matlab program the first and those after it that are not
\* "Do not use".
Retained(setting_values, module_name) ==
    IF module_name = ModuleClass THEN setting_values
    ELSE LET Used(v) == v # DO_NOT_USE
         IN  <<setting_values[1]>> \o SelectSeq(Tail(setting_values), Used)

\* C23: after set_setting_values has returned, there are as many object names
\* as retained values after the image name, and the image name and the object
\* names are the retained values in order.
C23_ObjectNamesFollowSettingValues ==
    (Called("set_setting_values") /\ pc = "returned") =>
        \E kept \in {Retained(locals.setting_values, locals.module_name)} :
            /\ locals.variable_revision_number >= 2
            /\ Len(moi.object_names) = Len(kept) - 1
            /\ moi.image_name = kept[1]
            /\ \A j \in 1 .. Len(moi.object_names) : moi.object_names[j] = kept[j + 1]

\* C23 witness: set_setting_values has returned for a pipeline of the Matlab
\* program whose values hold "Do not use" before an object name that is kept.
C23_Witness ==
    /\ Called("set_setting_values") /\ pc = "returned"
    /\ locals.module_name # ModuleClass
    /\ Len(locals.setting_values) = 3
    /\ locals.setting_values[2] = DO_NOT_USE
    /\ moi.object_names = <<"Cells">>

\* C24 (as claimed): after the remove button shown at a position has been
\* pressed, the call did not raise, and the object names and the remove
\* buttons are those of before without the entry at that position.
C24_RemoveButtonRemovesItsEntry ==
    Called("remove_button") =>
        /\ pc = "returned"
        /\ moi.object_names = DelAt(locals.before.object_names, locals.position + 1)
        /\ moi.object_name_remove_buttons
             = DelAt(locals.before.object_name_remove_buttons, locals.position + 1)

\* C25: object_names and object_name_remove_buttons always have the same
\* length, and visible_settings shows the image name, every object name with
\* its remove button, and the add button.
C25_NamesAndButtonsPaired ==
    /\ Len(moi.object_names) = Len(moi.object_name_remove_buttons)
    /\ Len(visible_settings(moi)) = 2 * Len(moi.object_names) + 2
    /\ \A j \in 1 .. Len(moi.object_names) :
         /\ visible_settings(moi)[2 * j] = moi.object_names[j]
         /\ visible_settings(moi)[2 * j + 1] = <<"Remove", moi.object_name_remove_buttons[j]>>

\* C25 witness: a call of remove_cb has raised with two object names in place.
C25_Witness ==
    /\ Called("remove_cb") /\ pc = "raised"
    /\ Len(moi.object_names) = 2
    /\ Len(moi.object_name_remove_buttons) = 2

\* C28 (as claimed): get_measurements returns a list, the 14 feature names for
\* the category "Intensity" and a configured object name and the empty list
\* otherwise, which is non-empty exactly when get_categories of the object
\* name holds "Intensity".
C28_GetMeasurementsReturnsAList ==
    Called("get_measurements") =>
        /\ locals.result \in {ALL_MEASUREMENTS, << >>}
        /\ locals.result = ALL_MEASUREMENTS
             <=> /\ locals.category = INTENSITY
                 /\ \E j \in 1 .. Len(moi.object_names) :
                      moi.object_names[j] = locals.object_name
        /\ (locals.category = INTENSITY /\ locals.result # << >>)
             <=> (locals.category = INTENSITY
                  /\ get_categories(moi, locals.object_name) = <<INTENSITY>>)

\* C26 (as claimed): once run has ended, for every object name it measured at
\* least one object of, the integrated intensity that lines 231-232 divide by
\* is not 0 for any object, and no recorded MassDisplacement is the nan of a
\* division of 0 by 0.
C26_NoDivisionByZero ==
    Measured =>
        \A i \in 1 .. Len(locals) :
            locals[i].nobjects > 1 =>
                \A k \in 1 .. locals[i].nobjects - 1 :
                    /\ locals[i].integrated_intensity[k + 1] # 0
                    /\ ~locals[i].raised => locals[i].values[11][k] # "nan"

\* C27 (as claimed): after a run, entry i of Location_Center_X is the mean
\* column index of the pixels labelled i and entry i of Location_Center_Y
\* their mean row index, the x and y of the mesh_x and mesh_y that
\* MeasureObjectIntensity.run takes its centres of mass from.
C27_CenterXIsColumnMean ==
    pc = "done" =>
        \A i \in 1 .. locals.object_count :
            \E S \in {{p \in Pixels : Segmented[p] = i}} :
                /\ Recorded[CenterXKey][i] = <<SumOver(mesh_x, S), Cardinality(S)>>
                /\ Recorded[CenterYKey][i] = <<SumOver(mesh_y, S), Cardinality(S)>>

\* C29: once EnhanceOrSuppressSpeckles.run has ended on the image set of a
\* cycle.  For the method Enhance or Suppress it returned, the image set holds
\* the images of before, unchanged, and one more image under
\* filtered_image_name, whose parent is the input image and whose pixels are
\* the white tophat (Enhance) or the opening (Suppress) of the input, within
\* its mask if and only if the input has a mask.  For any other method it
\* raised and the image set is the one of before.
C29_OneFilteredImageOrValueError ==
    (pc \in {"done", "error"} /\ eoss # SpeckleDefaultSettings) =>
        \E before \in {image_set_list[1]} :
        \E image \in {before[eoss.image_name]} :
        \E radius \in {(eoss.object_size + 1) \div 2} :
            IF eoss.method \in {ENHANCE, SUPPRESS}
            THEN /\ pc = "done"
                 /\ DOMAIN image_set = DOMAIN before \cup {eoss.filtered_image_name}
                 /\ Cardinality(DOMAIN image_set) = Cardinality(DOMAIN before) + 1
                 /\ \A n \in DOMAIN before : image_set[n] = before[n]
                 /\ image_set[eoss.filtered_image_name].parent_image = eoss.image_name
                 /\ locals.mask_passed <=> image.has_mask
                 /\ locals.filter = IF eoss.method = ENHANCE THEN "white_tophat" ELSE "opening"
                 /\ image_set[eoss.filtered_image_name].image
                      = [p \in Pixels |->
                           LET mask   == IF image.has_mask THEN image.mask ELSE NoMask
                               eroded == [q \in Pixels |->
                                            IF mask[q]
                                            THEN Min({image.image[t] : t \in WithinRadius(q, radius, mask)})
                                            ELSE image.image[q]]
                               opened == IF mask[p]
                                         THEN Max({eroded[t] : t \in WithinRadius(p, radius, mask)})
                                         ELSE image.image[p]
                           IN  IF eoss.method = SUPPRESS THEN opened
                               ELSE IF mask[p] THEN image.image[p] - opened
                               ELSE image.image[p]]
            ELSE /\ pc = "error"
                 /\ image_set = before

\* C29 witness: run returned for an image with a mask that leaves a pixel out
\* and a speckle next to it that the mask keeps from being suppressed.
C29_Witness ==
    /\ pc = "done" /\ eoss # SpeckleDefaultSettings
    /\ eoss.method = SUPPRESS
    /\ image_set[eoss.image_name].has_mask
    /\ \E p \in Pixels : ~image_set[eoss.image_name].mask[p]
    /\ image_set[eoss.filtered_image_name].image
         # opening(image_set[eoss.image_name].image, (eoss.object_size + 1) \div 2, NoMask)

====
